---- MODULE Spec2Model ----
(***************************************************************************)
(* Model of the guessing game: Guess::new, input and respond (src/lib.rs)  *)
(* and the driver main (src/main.rs).                                      *)
(*                                                                         *)
(* Text is a sequence of one-character strings.  The input source is       *)
(* either a source that stays at end-of-stream once drained (a byte slice, *)
(* a pipe) or an interactive one on which every read_to_string can yield   *)
(* fresh text.  Every write, flush and read has a nondeterministic         *)
(* outcome (Ok or Err).                                                    *)
(***************************************************************************)
EXTENDS Integers, Sequences, FiniteSets, TLC

\* ---------------------------------------------------------------- bounds
MaxLen == 3
RangeMin == 0
RangeMax == 2
ReadCap == 2
UnitSpan == 2

\* ------------------------------------------------------ program constants
ATTEMPTS_ALLOWED == 10

I32Max == 2147483647

I32Min == -I32Max - 1

\* ------------------------------------------------------------- text model
Alphabet == {" ", "-", "+", "0", "1", "2", "x"}

Texts == UNION {[1..n -> Alphabet] : n \in 0..MaxLen}

BadUtf8 == <<"\\xff">>

IsWhitespace(c) == c = " "

IsDigit(c) == c \in {"0", "1", "2", "3", "4", "5", "6", "7", "8", "9"}

DigitVal(c) ==
    CASE c = "0" -> 0 [] c = "1" -> 1 [] c = "2" -> 2 [] c = "3" -> 3
      [] c = "4" -> 4 [] c = "5" -> 5 [] c = "6" -> 6 [] c = "7" -> 7
      [] c = "8" -> 8 [] c = "9" -> 9

RECURSIVE TrimStart(_)
TrimStart(s) ==
    IF s # <<>> /\ IsWhitespace(Head(s)) THEN TrimStart(Tail(s)) ELSE s

RECURSIVE TrimEnd(_)
TrimEnd(s) ==
    IF s # <<>> /\ IsWhitespace(s[Len(s)])
    THEN TrimEnd(SubSeq(s, 1, Len(s) - 1))
    ELSE s

Trim(s) == TrimEnd(TrimStart(s))

Ok(v) == [tag |-> "Ok", val |-> v]

Err(v) == [tag |-> "Err", val |-> v]

None == [tag |-> "None", val |-> 0]

RECURSIVE DigitsValue(_, _)
DigitsValue(ds, acc) ==
    IF ds = <<>> THEN acc
    ELSE DigitsValue(Tail(ds), acc * 10 + DigitVal(Head(ds)))

\* str::parse::<i32>: optional sign, then one or more decimal digits; the
\* empty string, a lone sign, any other character and overflow are errors.
ParseI32(s) ==
    IF s = <<>> THEN Err(0)
    ELSE LET signed == Head(s) \in {"+", "-"}
             ds     == IF signed THEN Tail(s) ELSE s
         IN  IF ds = <<>> \/ \E k \in 1..Len(ds) : ~IsDigit(ds[k])
             THEN Err(0)
             ELSE LET mag == DigitsValue(ds, 0)
                      v   == IF Head(s) = "-" THEN -mag ELSE mag
                  IN  IF v < I32Min \/ v > I32Max THEN Err(0) ELSE Ok(v)

\* ------------------------------------------------------------------ Guess
\* RangeInclusive::contains
Contains(l, h, v) == l <= v /\ v <= h

\* a constructor that clamps an out-of-range value into the range
GuessNewClamped(l, h, v) ==
    IF v < l /\ l <= h THEN Ok(l)
    ELSE IF v > h /\ l <= h THEN Ok(h)
    ELSE IF Contains(l, h, v) THEN Ok(v) ELSE Err(v)

\* Guess::<RANGE>::new
GuessNew(l, h, v) == IF Contains(l, h, v) THEN Ok(v) ELSE Err(v)

\* an ordering with its operands swapped
CmpReversed(a, b) ==
    IF b < a THEN "Less" ELSE IF b > a THEN "Greater" ELSE "Equal"

\* derived Ord on Guess { value }
Cmp(a, b) == IF a < b THEN "Less" ELSE IF a > b THEN "Greater" ELSE "Equal"

\* message selected by the match in respond
Message(ord) ==
    CASE ord = "Greater" -> "too high"
      [] ord = "Less"    -> "too low"
      [] ord = "Equal"   -> "You win"

\* ------------------------------------------------------------------ state
VARIABLES
    lo, hi,        \* RANGE: the const generic RangeInclusive<i32>
    sticky,        \* the input source stays at end-of-stream once drained
    pending,       \* what such a source still holds
    pc,            \* position of the single thread of control
    correct,       \* main: the secret Guess
    i,             \* main: loop variable of the countdown
    guess_input,   \* input: the String read in this iteration
    parsed,        \* input: result of trim().parse::<i32>()
    candidate,     \* argument of the last Guess::new
    made,          \* result of the last Guess::new
    guess,         \* value returned by input and passed to respond
    failedAt,      \* input: step of this iteration that failed
    retried,       \* input: this call already had a failed iteration
    errs,          \* input: error messages accepted by the sink this iteration
    flow,          \* ControlFlow returned by respond
    msgs,          \* messages respond wrote for the current guess
    responds,      \* number of calls of respond
    reads,         \* number of read_to_string calls (saturating at ReadCap)
    sinkRejected,  \* a write_all on the output sink returned Err
    gameState      \* Playing, Won or Lost

vars == <<lo, hi, sticky, pending, pc, correct, i, guess_input, parsed,
          candidate, made, guess, failedAt, retried, errs, flow, msgs,
          responds, reads, sinkRejected, gameState>>

InputPcs == {"prompt", "flush", "read", "parse", "validate", "invalid"}

Min(a, b) == IF a < b THEN a ELSE b

\* state of main before its first statement
Init ==
    /\ lo \in RangeMin..RangeMax
    /\ hi \in lo..RangeMax
    /\ sticky \in BOOLEAN
    /\ pending \in IF sticky THEN Texts \cup {BadUtf8} ELSE {<<>>}
    /\ pc = "greet"
    /\ correct = None
    /\ i = 0
    /\ guess_input = <<>>
    /\ parsed = None
    /\ candidate = 0
    /\ made = None
    /\ guess = None
    /\ failedAt = "none"
    /\ retried = FALSE
    /\ errs = 0
    /\ flow = "None"
    /\ msgs = <<>>
    /\ responds = 0
    /\ reads = 0
    /\ sinkRejected = FALSE
    /\ gameState = "Playing"

\* ------------------------------------------------------------------- main
\* println! of the greeting; println! panics when stdout rejects the write
Greet ==
    /\ pc = "greet"
    /\ \E ok \in BOOLEAN : pc' = IF ok THEN "gen" ELSE "panic"
    /\ UNCHANGED <<lo, hi, sticky, pending, correct, i, guess_input, parsed,
                   candidate, made, guess, failedAt, retried, errs, flow,
                   msgs, responds, reads, sinkRejected, gameState>>

\* Guess::new(thread_rng().gen_range(GUESS_RANGE)).expect(..)
Generate ==
    /\ pc = "gen"
    /\ \E r \in lo..hi :
         /\ candidate' = r
         /\ made' = GuessNew(lo, hi, r)
         /\ IF made'.tag = "Ok"
            THEN correct' = made' /\ i' = ATTEMPTS_ALLOWED /\ pc' = "for"
            ELSE correct' = correct /\ i' = i /\ pc' = "panic"
    /\ UNCHANGED <<lo, hi, sticky, pending, guess_input, parsed, guess,
                   failedAt, retried, errs, flow, msgs, responds, reads,
                   sinkRejected, gameState>>

\* the countdown over 1..ATTEMPTS_ALLOWED with its last value left out
ForNextExclusive ==
    /\ pc = "for"
    /\ pc' = IF i > 1 THEN "prompt" ELSE "lose"
    /\ guess' = None
    /\ retried' = FALSE
    /\ failedAt' = "none"
    /\ errs' = 0
    /\ flow' = "None"
    /\ msgs' = <<>>
    /\ UNCHANGED <<lo, hi, sticky, pending, correct, i, guess_input, parsed,
                   candidate, made, responds, reads, sinkRejected, gameState>>

\* for i in (1..=ATTEMPTS_ALLOWED).rev(): take the next i and call input,
\* or leave the loop
ForNext ==
    /\ pc = "for"
    /\ pc' = IF i >= 1 THEN "prompt" ELSE "lose"
    /\ guess' = None
    /\ retried' = FALSE
    /\ failedAt' = "none"
    /\ errs' = 0
    /\ flow' = "None"
    /\ msgs' = <<>>
    /\ UNCHANGED <<lo, hi, sticky, pending, correct, i, guess_input, parsed,
                   candidate, made, responds, reads, sinkRejected, gameState>>

\* a win that leaves the loop with break instead of returning from main
CheckBreaksLoop ==
    /\ pc = "check"
    /\ IF flow = "Break"
       THEN gameState' = "Won" /\ pc' = "lose" /\ i' = i
       ELSE gameState' = gameState /\ pc' = "for" /\ i' = i - 1
    /\ UNCHANGED <<lo, hi, sticky, pending, correct, guess_input, parsed,
                   candidate, made, guess, failedAt, retried, errs, flow,
                   msgs, responds, reads, sinkRejected>>

\* if respond(..).is_break() { return }
Check ==
    /\ pc = "check"
    /\ IF flow = "Break"
       THEN gameState' = "Won" /\ pc' = "exit" /\ i' = i
       ELSE gameState' = gameState /\ pc' = "for" /\ i' = i - 1
    /\ UNCHANGED <<lo, hi, sticky, pending, correct, guess_input, parsed,
                   candidate, made, guess, failedAt, retried, errs, flow,
                   msgs, responds, reads, sinkRejected>>

\* println! of the loss message
Lose ==
    /\ pc = "lose"
    /\ \E ok \in BOOLEAN :
         IF ok THEN gameState' = "Lost" /\ pc' = "exit"
               ELSE gameState' = gameState /\ pc' = "panic"
    /\ UNCHANGED <<lo, hi, sticky, pending, correct, i, guess_input, parsed,
                   candidate, made, guess, failedAt, retried, errs, flow,
                   msgs, responds, reads, sinkRejected>>

\* ------------------------------------------------------------------ input
\* top of the loop: print! the prompt, let mut guess_input = String::new()
Prompt ==
    /\ pc = "prompt"
    /\ \E ok \in BOOLEAN : pc' = IF ok THEN "flush" ELSE "panic"
    /\ guess_input' = <<>>
    /\ parsed' = None
    /\ candidate' = 0
    /\ made' = None
    /\ failedAt' = "none"
    /\ errs' = 0
    /\ UNCHANGED <<lo, hi, sticky, pending, correct, i, guess, retried, flow,
                   msgs, responds, reads, sinkRejected, gameState>>

\* a flush whose result is dropped: the chain goes on after a failure
FlushIgnored ==
    /\ pc = "flush"
    /\ \E ok \in BOOLEAN :
         IF ok THEN pc' = "read" /\ failedAt' = failedAt
               ELSE pc' = "read" /\ failedAt' = "flush"
    /\ UNCHANGED <<lo, hi, sticky, pending, correct, i, guess_input, parsed,
                   candidate, made, guess, retried, errs, flow, msgs,
                   responds, reads, sinkRejected, gameState>>

\* if let Ok(_) = output.flush()
Flush ==
    /\ pc = "flush"
    /\ \E ok \in BOOLEAN :
         IF ok THEN pc' = "read" /\ failedAt' = failedAt
               ELSE pc' = "invalid" /\ failedAt' = "flush"
    /\ UNCHANGED <<lo, hi, sticky, pending, correct, i, guess_input, parsed,
                   candidate, made, guess, retried, errs, flow, msgs,
                   responds, reads, sinkRejected, gameState>>

\* a source that is not consumed by the read
ReadInputRewinding ==
    /\ pc = "read"
    /\ reads' = Min(reads + 1, ReadCap)
    /\ IF sticky
       THEN IF pending = BadUtf8
            THEN /\ pending' \in {BadUtf8, <<>>}
                 /\ guess_input' = guess_input
                 /\ pc' = "invalid" /\ failedAt' = "read"
            ELSE /\ guess_input' = guess_input \o pending
                 /\ pending' = pending
                 /\ pc' = "parse" /\ failedAt' = failedAt
       ELSE /\ pending' = pending
            /\ \/ \E t \in Texts :
                    /\ guess_input' = guess_input \o t
                    /\ pc' = "parse" /\ failedAt' = failedAt
               \/ /\ guess_input' = guess_input
                  /\ pc' = "invalid" /\ failedAt' = "read"
    /\ UNCHANGED <<lo, hi, sticky, correct, i, parsed, candidate, made,
                   guess, retried, errs, flow, msgs, responds, sinkRejected,
                   gameState>>

\* && let Ok(_) = input.read_to_string(&mut guess_input)
ReadInput ==
    /\ pc = "read"
    /\ reads' = Min(reads + 1, ReadCap)
    /\ IF sticky
       THEN IF pending = BadUtf8
            THEN /\ pending' \in {BadUtf8, <<>>}
                 /\ guess_input' = guess_input
                 /\ pc' = "invalid" /\ failedAt' = "read"
            ELSE /\ guess_input' = guess_input \o pending
                 /\ pending' = <<>>
                 /\ pc' = "parse" /\ failedAt' = failedAt
       ELSE /\ pending' = pending
            /\ \/ \E t \in Texts :
                    /\ guess_input' = guess_input \o t
                    /\ pc' = "parse" /\ failedAt' = failedAt
               \/ /\ guess_input' = guess_input
                  /\ pc' = "invalid" /\ failedAt' = "read"
    /\ UNCHANGED <<lo, hi, sticky, correct, i, parsed, candidate, made,
                   guess, retried, errs, flow, msgs, responds, sinkRejected,
                   gameState>>

\* a parse of the untrimmed text
ParseNoTrim ==
    /\ pc = "parse"
    /\ parsed' = ParseI32(guess_input)
    /\ IF parsed'.tag = "Ok"
       THEN pc' = "validate" /\ failedAt' = failedAt
       ELSE pc' = "invalid" /\ failedAt' = "parse"
    /\ UNCHANGED <<lo, hi, sticky, pending, correct, i, guess_input,
                   candidate, made, guess, retried, errs, flow, msgs,
                   responds, reads, sinkRejected, gameState>>

\* && let Ok(parsed) = guess_input.trim().parse::<i32>()
Parse ==
    /\ pc = "parse"
    /\ parsed' = ParseI32(Trim(guess_input))
    /\ IF parsed'.tag = "Ok"
       THEN pc' = "validate" /\ failedAt' = failedAt
       ELSE pc' = "invalid" /\ failedAt' = "parse"
    /\ UNCHANGED <<lo, hi, sticky, pending, correct, i, guess_input,
                   candidate, made, guess, retried, errs, flow, msgs,
                   responds, reads, sinkRejected, gameState>>

\* a Guess built from the parsed integer without Guess::new
ValidateUnchecked ==
    /\ pc = "validate"
    /\ candidate' = parsed.val
    /\ made' = Ok(parsed.val)
    /\ guess' = made' /\ pc' = "respond" /\ failedAt' = failedAt
    /\ UNCHANGED <<lo, hi, sticky, pending, correct, i, guess_input, parsed,
                   retried, errs, flow, msgs, responds, reads, sinkRejected,
                   gameState>>

\* && let Ok(guess) = Guess::new(parsed) { break guess; }
Validate ==
    /\ pc = "validate"
    /\ candidate' = parsed.val
    /\ made' = GuessNew(lo, hi, parsed.val)
    /\ IF made'.tag = "Ok"
       THEN guess' = made' /\ pc' = "respond" /\ failedAt' = failedAt
       ELSE guess' = guess /\ pc' = "invalid" /\ failedAt' = "validate"
    /\ UNCHANGED <<lo, hi, sticky, pending, correct, i, guess_input, parsed,
                   retried, errs, flow, msgs, responds, reads, sinkRejected,
                   gameState>>

\* an error branch that uses up an attempt
WriteErrorConsuming ==
    /\ pc = "invalid"
    /\ i' = i - 1
    /\ \E ok \in BOOLEAN :
         IF ok
         THEN /\ errs' = errs + 1
              /\ retried' = TRUE
              /\ sinkRejected' = sinkRejected
              /\ pc' = "prompt"
         ELSE /\ errs' = errs
              /\ retried' = retried
              /\ sinkRejected' = TRUE
              /\ pc' = "panic"
    /\ UNCHANGED <<lo, hi, sticky, pending, correct, guess_input, parsed,
                   candidate, made, guess, failedAt, flow, msgs, responds,
                   reads, gameState>>

\* else { output.write_all(<error text>).expect("Error erroring...") }
WriteError ==
    /\ pc = "invalid"
    /\ \E ok \in BOOLEAN :
         IF ok
         THEN /\ errs' = errs + 1
              /\ retried' = TRUE
              /\ sinkRejected' = sinkRejected
              /\ pc' = "prompt"
         ELSE /\ errs' = errs
              /\ retried' = retried
              /\ sinkRejected' = TRUE
              /\ pc' = "panic"
    /\ UNCHANGED <<lo, hi, sticky, pending, correct, i, guess_input, parsed,
                   candidate, made, guess, failedAt, flow, msgs, responds,
                   reads, gameState>>

\* a respond that drops the result of write_all instead of expecting it
RespondIgnoringWrite ==
    /\ pc = "respond"
    /\ responds' = responds + 1
    /\ guess_input' = <<>>
    /\ parsed' = None
    /\ \E ok \in BOOLEAN :
         /\ msgs' = IF ok THEN Append(msgs, Message(Cmp(guess.val, correct.val)))
                         ELSE msgs
         /\ sinkRejected' = (sinkRejected \/ ~ok)
    /\ flow' = IF Cmp(correct.val, guess.val) = "Equal"
               THEN "Break" ELSE "Continue"
    /\ pc' = "check"
    /\ UNCHANGED <<lo, hi, sticky, pending, correct, i, candidate, made,
                   guess, failedAt, retried, errs, reads, gameState>>

\* ---------------------------------------------------------------- respond
Respond ==
    /\ pc = "respond"
    /\ responds' = responds + 1
    /\ guess_input' = <<>>
    /\ parsed' = None
    /\ \E ok \in BOOLEAN :
         IF ok
         THEN /\ msgs' = Append(msgs, Message(Cmp(guess.val, correct.val)))
              /\ flow' = IF Cmp(correct.val, guess.val) = "Equal"
                         THEN "Break" ELSE "Continue"
              /\ sinkRejected' = sinkRejected
              /\ pc' = "check"
         ELSE /\ msgs' = msgs
              /\ flow' = flow
              /\ sinkRejected' = TRUE
              /\ pc' = "panic"
    /\ UNCHANGED <<lo, hi, sticky, pending, correct, i, candidate, made,
                   guess, failedAt, retried, errs, reads, gameState>>

Next ==
    \/ Greet
    \/ Generate
    \/ ForNext
    \/ Prompt
    \/ Flush
    \/ ReadInput
    \/ Parse
    \/ Validate
    \/ WriteError
    \/ Respond
    \/ Check
    \/ Lose

Spec == Init /\ [][Next]_vars

\* ------------------------------------------- Guess::new on its own inputs
UnitValues == (RangeMin - UnitSpan)..(RangeMax + UnitSpan)

UnitCandidates ==
    ((RangeMin - UnitSpan - 1)..(RangeMax + UnitSpan + 1)) \cup {I32Min, I32Max}

\* any range (an empty one, lo > hi, included) and any candidate
InitNew ==
    /\ lo \in UnitValues
    /\ hi \in UnitValues
    /\ candidate \in UnitCandidates
    /\ pc = "unit"
    /\ sticky = FALSE
    /\ pending = <<>>
    /\ correct = None
    /\ i = 0
    /\ guess_input = <<>>
    /\ parsed = None
    /\ made = None
    /\ guess = None
    /\ failedAt = "none"
    /\ retried = FALSE
    /\ errs = 0
    /\ flow = "None"
    /\ msgs = <<>>
    /\ responds = 0
    /\ reads = 0
    /\ sinkRejected = FALSE
    /\ gameState = "Playing"

\* one call Guess::<{lo..=hi}>::new(candidate), as in tests::construction
CallNew ==
    /\ pc = "unit"
    /\ made' = GuessNew(lo, hi, candidate)
    /\ pc' = "unit_done"
    /\ UNCHANGED <<lo, hi, sticky, pending, correct, i, guess_input, parsed,
                   candidate, guess, failedAt, retried, errs, flow, msgs,
                   responds, reads, sinkRejected, gameState>>

NextNew == CallNew

SpecNew == InitNew /\ [][NextNew]_vars

\* --------------------------------------------------------------- claims
\* the entry is text whose trimmed form is an integer of the range
ValidEntry(t) ==
    LET p == ParseI32(Trim(t)) IN p.tag = "Ok" /\ lo <= p.val /\ p.val <= hi

\* C1: Guess::new(v) is Ok(Guess with value v) exactly when lo <= v <= hi and
\* is Err(v), with the raw value unchanged, otherwise; so it succeeds at lo
\* and at hi, fails at lo-1 and at hi+1, and never clamps.
C1_NewIffInRange ==
    pc = "unit_done" =>
        /\ made.tag \in {"Ok", "Err"}
        /\ made.tag = "Ok" <=> (lo <= candidate /\ candidate <= hi)
        /\ made.val = candidate
        /\ (lo <= hi /\ candidate \in {lo, hi}) => made = Ok(candidate)
        /\ candidate \in {lo - 1, hi + 1} => made = Err(candidate)

C1_Witness ==
    pc = "unit_done" /\ lo < hi /\ candidate = hi + 1 /\ made = Err(hi + 1)

\* C2: respond writes exactly one message and returns Break iff the values
\* are equal, else Continue; the message is "too high" iff guess > correct,
\* "too low" iff guess < correct and "You win" iff they are equal, so the
\* win message is written exactly when Break is returned.
C2_RespondClassifies ==
    pc = "check" =>
        /\ Len(msgs) = 1
        /\ flow \in {"Break", "Continue"}
        /\ flow = "Break" <=> guess.val = correct.val
        /\ msgs[1] = "too high" <=> guess.val > correct.val
        /\ msgs[1] = "too low" <=> guess.val < correct.val
        /\ msgs[1] = "You win" <=> guess.val = correct.val
        /\ msgs[1] = "You win" <=> flow = "Break"

C2_Witness ==
    /\ pc = "check"
    /\ guess.val > correct.val
    /\ msgs = <<"too high">>
    /\ flow = "Continue"

\* C3: with ATTEMPTS_ALLOWED = 10 and no winning guess the driver makes
\* exactly 10 input/respond cycles before the loss message: the loop is
\* left only after the 10th respond, never after fewer, there is no 11th,
\* and a game that ended without a win ended with the loss message.
C3_LossAfterExactlyTen ==
    /\ responds <= ATTEMPTS_ALLOWED
    /\ gameState = "Lost" => (responds = ATTEMPTS_ALLOWED /\ pc = "exit")
    /\ pc = "lose" => responds = ATTEMPTS_ALLOWED
    /\ (pc = "for" /\ responds < ATTEMPTS_ALLOWED) => i >= 1
    /\ (pc = "for" /\ responds = ATTEMPTS_ALLOWED) => i = 0
    /\ (pc = "exit" /\ gameState # "Won") => gameState = "Lost"

C3_Witness ==
    gameState = "Lost" /\ pc = "exit" /\ responds = ATTEMPTS_ALLOWED

\* C4: the game state is Playing, Won or Lost; it changes only from Playing,
\* to Won when respond returned Break on an equal comparison, to Lost when
\* the budget is exhausted; Won and Lost are terminal: after Break the
\* driver takes no further step but the return, so nothing is prompted,
\* read or responded and the loss message is not printed in a won game.
C4_StateMachine ==
    /\ [](gameState \in {"Playing", "Won", "Lost"})
    /\ [](gameState # "Playing" => pc = "exit")
    /\ [][gameState' # gameState =>
            /\ gameState = "Playing"
            /\ \/ /\ gameState' = "Won"
                  /\ flow = "Break"
                  /\ guess.val = correct.val
               \/ /\ gameState' = "Lost"
                  /\ i = 0
                  /\ responds = ATTEMPTS_ALLOWED
                  /\ flow # "Break"]_vars
    /\ [][flow = "Break" =>
            /\ gameState' = "Won"
            /\ pc' = "exit"
            /\ responds' = responds
            /\ reads' = reads]_vars
    /\ [][gameState # "Playing" => UNCHANGED vars]_vars

C4_Witness ==
    gameState = "Won" /\ pc = "exit" /\ responds = ATTEMPTS_ALLOWED /\ i = 1

\* C5: invalid input never ends the game nor consumes an attempt: no step
\* inside input changes the attempt counter, the number of respond calls
\* or the game state, and the counter has gone down by exactly one per
\* call of input that returned (per guess passed to respond).
C5_InvalidInputIsFree ==
    /\ []((pc \in InputPcs \cup {"respond"}) =>
            (i = ATTEMPTS_ALLOWED - responds /\ i >= 1))
    /\ [](pc = "check" => i = ATTEMPTS_ALLOWED - responds + 1)
    /\ [](pc = "for" => i = ATTEMPTS_ALLOWED - responds)
    /\ [][(pc \in InputPcs) =>
            /\ i' = i
            /\ responds' = responds
            /\ gameState' = gameState
            /\ gameState = "Playing"]_vars
    /\ [][pc = "invalid" => pc' \in {"prompt", "panic"}]_vars

C5_Witness ==
    /\ pc = "respond"
    /\ retried
    /\ responds = 1
    /\ i = ATTEMPTS_ALLOWED - 1

\* C6: every Guess that exists lies in its range: the secret (whose expect
\* never aborts) and every value input returns, which is the result of
\* Guess::new on the integer parsed from the trimmed text that was read.
C6_GuessesInRange ==
    /\ [](correct.tag # "None" =>
            (correct.tag = "Ok" /\ lo <= correct.val /\ correct.val <= hi))
    /\ [](guess.tag # "None" =>
            (guess.tag = "Ok" /\ lo <= guess.val /\ guess.val <= hi))
    /\ [](pc = "respond" =>
            /\ ParseI32(Trim(guess_input)).tag = "Ok"
            /\ guess = Ok(ParseI32(Trim(guess_input)).val)
            /\ guess = made
            /\ candidate = guess.val)
    /\ [][pc = "gen" => (pc' = "for" /\ correct'.tag = "Ok")]_vars

C6_Witness ==
    /\ pc = "respond"
    /\ lo = 0 /\ hi = 2
    /\ guess_input = <<"2">>
    /\ guess = Ok(2)

\* C7: with the output sink working, a call of input returns for the first
\* entry whose trimmed text is an in-range integer, however many malformed
\* entries came before, and for nothing else: such an entry never reaches
\* the error branch, any other entry always does, and the error branch
\* leads back to the prompt.
C7_ReturnsOnFirstValidEntry ==
    /\ []((pc = "invalid" /\ failedAt \in {"parse", "validate"}) =>
            ~ValidEntry(guess_input))
    /\ [](pc = "respond" => (ValidEntry(guess_input) /\ guess.tag = "Ok"))
    /\ [][(pc = "parse" /\ ValidEntry(guess_input)) => pc' = "validate"]_vars
    /\ [][(pc = "validate" /\ ValidEntry(guess_input)) =>
            (pc' = "respond" /\ guess' = Ok(ParseI32(Trim(guess_input)).val))]_vars
    /\ [][(pc = "invalid" /\ ~sinkRejected') =>
            (pc' = "prompt" /\ guess' = None)]_vars

C7_Witness ==
    pc = "respond" /\ retried /\ guess_input = <<" ", "1", " ">> /\ guess = Ok(1)

\* C8: when the sink rejects the error-message write of input or the
\* result-message write of respond the process aborts there: no step
\* follows, the failing call returned no Guess and no Continue/Stop, and
\* the game is neither Won nor Lost.
C8_RejectedWriteAborts ==
    /\ [](sinkRejected =>
            /\ pc = "panic"
            /\ gameState = "Playing"
            /\ flow = "None"
            /\ msgs = <<>>
            /\ failedAt # "none" => guess = None)
    /\ [][sinkRejected => UNCHANGED vars]_vars

C8_Witness ==
    /\ sinkRejected
    /\ pc = "panic"
    /\ guess.tag = "Ok"
    /\ guess.val = correct.val

\* C9: on a source that stays at end-of-stream once drained every read
\* after the first yields empty text, so a call of input returns only on
\* the first read and only if its whole content is one in-range integer;
\* in the driver the second call never returns: at most one respond call
\* happens, the game is never Lost, and it is Won only by the first guess.
C9_DrainedSourceNeverReturns ==
    /\ [][(sticky /\ pc = "read" /\ reads >= 1 /\ pc' = "parse") =>
            guess_input' = <<>>]_vars
    /\ []((sticky /\ pc \in {"validate", "respond"}) => reads = 1)
    /\ []((sticky /\ pc = "respond") => ValidEntry(guess_input))
    /\ [](sticky => responds <= 1)
    /\ []((sticky /\ reads >= 2) =>
            /\ pc \in {"prompt", "flush", "read", "parse", "invalid", "panic"}
            /\ gameState = "Playing")
    /\ [](sticky => gameState # "Lost")
    /\ []((sticky /\ gameState = "Won") => (responds = 1 /\ reads = 1))

C9_Witness ==
    /\ sticky
    /\ responds = 1
    /\ reads >= 2
    /\ retried
    /\ pc = "invalid"
    /\ failedAt = "parse"
    /\ guess_input = <<>>

\* C10: in input the steps flush, read, parse, validate run in this order
\* and stop at the first failure (no later step runs); a failure of any of
\* them, a failed flush or read included, leads to the error branch, which
\* writes one error message and goes back to the prompt with no value
\* returned and the attempt counter unchanged; the process aborts there
\* only if the sink rejects that message.
C10_AnyFailureReprompts ==
    /\ [](failedAt # "none" => pc \in {"invalid", "prompt", "panic"})
    /\ [](pc = "invalid" =>
            /\ failedAt \in {"flush", "read", "parse", "validate"}
            /\ errs = 0
            /\ guess = None)
    /\ [](failedAt = "flush" =>
            (guess_input = <<>> /\ parsed = None /\ made = None))
    /\ [](failedAt = "read" => (parsed = None /\ made = None))
    /\ [](failedAt = "parse" => (parsed.tag = "Err" /\ made = None))
    /\ [](failedAt = "validate" => (parsed.tag = "Ok" /\ made.tag = "Err"))
    /\ []((pc = "prompt" /\ failedAt # "none") =>
            (errs = 1 /\ guess = None /\ i = ATTEMPTS_ALLOWED - responds))
    /\ []((pc = "panic" /\ failedAt # "none") => sinkRejected)
    /\ [][(pc = "flush" /\ pc' = "invalid") =>
            UNCHANGED <<pending, reads, guess_input>>]_vars
    /\ [][pc = "invalid" =>
            \/ pc' = "prompt" /\ errs' = 1 /\ i' = i /\ ~sinkRejected'
            \/ pc' = "panic" /\ sinkRejected' /\ errs' = 0]_vars

C10_Witness ==
    /\ pc = "prompt"
    /\ failedAt = "flush"
    /\ errs = 1
    /\ sticky
    /\ pending # <<>>
    /\ reads = 0

====
